---- MODULE Spec2Model ----
(***************************************************************************)
(* The Rainbird device (src/drivers/rainbird/device.ts) as a state machine. *)
(*                                                                         *)
(* An async method runs atomically from one await to the next; every       *)
(* action below is one such slice, named after the method and the source   *)
(* line of the await it resumes from.  A capability write                  *)
(* (setCapabilityValue) and a trigger (trigger.trigger) take effect when   *)
(* they are called; the await on them only suspends the caller.            *)
(*                                                                         *)
(* The protocol client is the environment: what it reports is an input of  *)
(* the step that reads it, so the hub may change between any two reads.    *)
(* An optional JavaScript value (undefined / null) is a set: {} when       *)
(* absent, {v} when present.  Time is in milliseconds and the clock moves  *)
(* a whole second at a time.                                               *)
(***************************************************************************)
EXTENDS Integers, Sequences, FiniteSets, Bags, TLC

\* ---------------------------------------------------------------- bounds
MaxRec == 1        \* status-driven reconciles in flight at once
MaxTimers == 1     \* timeouts and timeout callbacks alive at once
MaxTime == 2       \* seconds the clock may advance
MaxDur == 1        \* largest remaining duration (seconds) the hub reports
MaxInstances == 2  \* protocol clients ever created (onInit + settings changes)
MaxSeconds == 86399  \* largest argument of formatTime

\* ------------------------------------------------------ program constants
SecondMs == 1000
\* toISOString gives the time of day: it wraps after this many seconds
DaySeconds == 86400

\* --------------------------------------------------------------- options
None == {}
Some(x) == {x}
Get(o) == CHOOSE x \in o : TRUE
\* a ?? b
Nullish(o, d) == IF o = None THEN d ELSE Get(o)

\* ------------------------------------------------------------------ hub
\* Zone indices the hub knows; only zone 1 is configured (named).
HubZones == {1, 2}
ConfiguredZones == <<[index |-> 1, name |-> "Front"]>>

\* What the protocol client can report in one synchronous read: the in-use
\* flag and the active zone (0: none).  A zone is active only while in use.
Snapshots ==
    {[inUse |-> FALSE, active |-> 0], [inUse |-> TRUE, active |-> 0]}
    \cup {[inUse |-> TRUE, active |-> z] : z \in HubZones}

\* What remainingDuration can return: absent, or seconds.
Durations == {None} \cup {Some(n) : n \in 0..MaxDur}

VARIABLES
    now,            \* Date.now()
    settings,       \* the device's settings store
    rainbirdService,\* 0: undefined, n: the n-th protocol client
    subs,           \* protocol clients with a 'status' listener registered
    zones,          \* this.zones
    endTime,        \* this.endTime (option)
    cancelLoop,     \* this.cancelLoop
    timeoutId,      \* this.timeoutId (option of a timer handle)
    enableQueueing, \* this.enableQueueing
    is_active,      \* capability (option of BOOLEAN; {} is null)
    active_zone,    \* capability (option of string)
    zone_time_left, \* capability (option of string)
    emitted,        \* the flow trigger the latest step emitted, or "none"
    rec,            \* the getCurrentStatus invocations in progress (a bag)
    timer,          \* timeouts and updateTime invocations, per handle
    life,           \* the lifecycle handler (onInit, onSettings, onDeleted)
    deleted,        \* onDeleted has been called
    req,            \* the flow action (start / stop request) being run
    lastPositive,   \* the latest reconcile to read the remaining duration
                    \* saw an active zone with a duration > 0
    lastZero,       \* the same, with a duration absent or 0
    rainSetPoint,   \* the client's rainSetPointReached flag at the latest
                    \* status notification
    formatted,      \* a call of formatTime: its argument and its result
    pair            \* the driver's pairing state (driver.ts)

vars == <<now, settings, rainbirdService, subs, zones, endTime, cancelLoop,
          timeoutId, enableQueueing, is_active, active_zone, zone_time_left,
          emitted, rec, timer, life, deleted, req, lastPositive, lastZero,
          rainSetPoint, formatted, pair>>

\* timer handles
Handles == DOMAIN timer

\* A getCurrentStatus invocation suspended at an await: isInUse and zone are
\* its locals, prev is the is_active value published when it read them, and
\* expired, t0 and epoch belong to the updateTime it awaits at line 56.
NewRec(pc, initial) ==
    [pc |-> pc, initial |-> initial, isInUse |-> FALSE, zone |-> 0,
     prev |-> None, expired |-> FALSE, t0 |-> 0, epoch |-> 0]
FreeTimer == [st |-> "free", at |-> 0, epoch |-> 0, expired |-> FALSE,
              t0 |-> 0]
IdleLife == [handler |-> "none", pc |-> "idle", trace |-> <<>>]
IdleReq == [card |-> "none", pc |-> "idle", zone |-> 0, minutes |-> 0,
            calls |-> <<>>, error |-> "none"]

\* The driver as constructed (driver.ts, lines 21-23): pairData, pairResult
\* and zoneNames are its fields; pc and data are the form_complete handler
\* in progress and its argument, reply is what form_complete returned,
\* devices is what the latest list_devices returned and op the handler that
\* ran last.  last and verified record the
\* outcome of the latest form_complete to finish and the submission the
\* latest successful connect was given.
IdlePair ==
    [pairData |-> None, pairResult |-> None,
     zoneNames |-> [z \in HubZones |-> None],
     pc |-> "idle", data |-> None, reply |-> None, devices |-> <<>>,
     op |-> "none",
     last |-> "none", verified |-> None]

\* ------------------------------------------------------- pure functions
Digit(n) ==
    CASE n = 0 -> "0" [] n = 1 -> "1" [] n = 2 -> "2" [] n = 3 -> "3"
      [] n = 4 -> "4" [] n = 5 -> "5" [] n = 6 -> "6" [] n = 7 -> "7"
      [] n = 8 -> "8" [] n = 9 -> "9"
Pad2(n) == Digit(n \div 10) \o Digit(n % 10)

\* new Date(ms).toISOString().substring(11, 19)
IsoTime(ms) ==
    LET s == ms \div SecondMs
    IN  Pad2((s \div 3600) % (DaySeconds \div 3600)) \o ":" \o Pad2((s \div 60) % 60)
            \o ":" \o Pad2(s % 60)

\* formatTime without the product of line 329
formatTimeOfMs(seconds) ==
    IF seconds = None THEN "-" ELSE IsoTime(Get(seconds))

\* formatTime(seconds?), for a whole number of seconds
formatTime(seconds) ==
    IF seconds = None THEN "-" ELSE IsoTime(Get(seconds) * SecondMs)

\* rainbirdService?.isInUse() ?? false, the client reporting s
IsInUse(s) == IF rainbirdService = 0 THEN FALSE ELSE s.inUse

\* getCurrentZoneId() without the fallback of line 19 for a missing client
getCurrentZoneIdOfSnapshot(s) == s.active

\* getCurrentZoneId(): the first zone the client reports active, 0 for
\* undefined
getCurrentZoneId(s) ==
    LET act == {z \in (IF rainbirdService = 0 THEN {} ELSE HubZones) :
                    s.active = z}
    IN  IF act = {} THEN 0 ELSE CHOOSE z \in act : \A y \in act : z <= y

\* rainbirdService?.remainingDuration(zone) ?? 0, the client returning d
RemainingDuration(d) == IF rainbirdService = 0 THEN 0 ELSE Nullish(d, 0)

\* line 32 without the comparison with the published value
EmitsEdgeOnEveryStatus(initial, isInUse, published) == ~initial

\* line 32 without the test of initial
EmitsEdgeOnInitial(initial, isInUse, published) == Some(isInUse) # published

\* the condition of line 32
EmitsEdge(initial, isInUse, published) ==
    ~initial /\ Some(isInUse) # published

\* the card of line 33
EdgeCard(isInUse) == IF isInUse THEN "turns_on" ELSE "turns_off"

\* line 42 without the comparison of the index
ZoneNameOfFirst(id) == IF zones = <<>> THEN "Unknown" ELSE zones[1].name

\* this.zones.find((z) => z.index === id), then the name or 'Unknown'
ZoneName(id) ==
    LET hit == {i \in 1..Len(zones) : zones[i].index = id}
    IN  IF hit = {} THEN "Unknown"
        ELSE zones[CHOOSE i \in hit : \A j \in hit : i <= j].name

FreeHandles == {h \in Handles : timer[h].st = "free"}
LowestFree == CHOOSE h \in FreeHandles : \A g \in FreeHandles : h <= g

\* --------------------------------------------------------------- Init
\* The settings the pairing or an older version of the app stored.  A stored
\* value keeps its JavaScript type: enableQueueing is "true", "false" or the
\* string "on"; defaultIrrigationTime is a number or a string of digits.
Minutes(n) == [isString |-> FALSE, value |-> n]
MinutesText(n) == [isString |-> TRUE, value |-> n]
SettingsChoices ==
    [enableQueueing : {"false", "true", "on"},
     defaultIrrigationTime : {Minutes(0), Minutes(15)},
     zonesAvailable : {0}]
PairedSettings ==
    [enableQueueing |-> "false", defaultIrrigationTime |-> Minutes(15),
     zonesAvailable |-> 0]

\* The device object as constructed (lines 8-14), its settings among S and
\* room for nTimers timeouts; the capability store may hold an is_active
\* value from an earlier run of the app.
InitDevice(S, nTimers) ==
    /\ now = 0
    /\ settings \in S
    /\ rainbirdService = 0
    /\ subs = {}
    /\ zones = <<>>
    /\ endTime = None
    /\ cancelLoop = TRUE
    /\ timeoutId = None
    /\ enableQueueing = FALSE
    /\ is_active \in {None, Some(TRUE), Some(FALSE)}
    /\ active_zone = None
    /\ zone_time_left = None
    /\ emitted = "none"
    /\ rec = EmptyBag
    /\ timer = [h \in 1..nTimers |-> FreeTimer]
    /\ life = IdleLife
    /\ deleted = FALSE
    /\ req = IdleReq
    /\ lastPositive = FALSE
    /\ lastZero = FALSE
    /\ rainSetPoint = FALSE

\* formatTime has not been called on its own
NoFormatCall == [seconds |-> None, text |-> None]

Init == InitDevice({PairedSettings}, MaxTimers) /\ formatted = NoFormatCall /\ pair = IdlePair
InitRace ==
    InitDevice({PairedSettings}, MaxTimers + 1) /\ formatted = NoFormatCall /\ pair = IdlePair
InitAnySettings ==
    InitDevice(SettingsChoices, MaxTimers) /\ formatted = NoFormatCall /\ pair = IdlePair

\* the arguments of formatTime: undefined, or a whole number of seconds
FormatInputs == {None} \cup {Some(n) : n \in 0..MaxSeconds}
InitFormat ==
    /\ InitDevice({PairedSettings}, MaxTimers)
    /\ formatted \in {[seconds |-> x, text |-> None] : x \in FormatInputs}
    /\ pair = IdlePair

\* ------------------------------------------------------------ helpers
LifeBusy == life.pc \notin {"idle", "done", "failed"}
Logged(op) == Append(life.trace, [op |-> op, client |-> rainbirdService])

\* homey.clearTimeout(this.timeoutId), guarded by if (this.timeoutId)
ClearTimeout ==
    IF timeoutId # None /\ timer[Get(timeoutId)].st = "pending"
    THEN [timer EXCEPT ![Get(timeoutId)] = FreeTimer]
    ELSE timer

\* updateTime: the comparison of line 231, under the test of line 230
UpdateTimeExpired(et) == et # None /\ now > Get(et)

\* updateTime, lines 230-240: the text published.  remaining is
\* (endTime - now) / 1000 seconds, which formatTime multiplies by 1000 again.
UpdateTimeText(et) ==
    IF et = None \/ UpdateTimeExpired(et) THEN "-" ELSE IsoTime(Get(et) - now)

\* line 243: the delay of the next timeout; t0 is now % 1000 at line 228
NextDelay(t0) == SecondMs - t0

\* lines 242-244 for an updateTime that does not stop: the timeout it sets
PendingTimer(epoch, t0) ==
    [st |-> "pending", at |-> now + NextDelay(t0), epoch |-> epoch,
     expired |-> FALSE, t0 |-> 0]

\* one invocation moves on / returns
Moved(r, r2) == (rec (-) SetToBag({r})) (+) SetToBag({r2})
Dropped(r) == rec (-) SetToBag({r})
StatusCount ==
    BagCardinality(rec) - Cardinality({r \in BagToSet(rec) : r.initial})
InFlight(pc) == {r \in BagToSet(rec) : r.pc = pc}

\* getCurrentStatus returns.  The initial one is awaited by
\* instantiateController, which then registers the status listener
\* (lines 119-121).
FinishRec(r) ==
    /\ rec' = Dropped(r)
    /\ IF r.initial
       THEN /\ subs' = subs \cup {rainbirdService}
            /\ life' = [life EXCEPT !.pc = "done", !.trace = Logged("subscribe")]
       ELSE UNCHANGED <<subs, life>>

\* getCurrentStatus(initial), lines 29-39, up to its first await; the
\* client reports s.
GetCurrentStatusCall(initial, s) ==
    LET isInUse == IsInUse(s)
        r == [NewRec("r39", initial) EXCEPT
                 !.isInUse = isInUse,
                 !.zone = getCurrentZoneId(s),
                 !.prev = is_active]
    IN  IF EmitsEdge(initial, isInUse, is_active)
        THEN /\ emitted' = EdgeCard(isInUse)
             /\ rec' = rec (+) SetToBag({[r EXCEPT !.pc = "r36"]})
             /\ UNCHANGED is_active
        ELSE /\ is_active' = Some(isInUse)
             /\ rec' = rec (+) SetToBag({r})
             /\ emitted' = "none"

\* ------------------------------------------------------- environment
Advance ==
    /\ now < MaxTime * SecondMs
    /\ now' = now + SecondMs
    /\ emitted' = "none"
    /\ UNCHANGED <<pair, formatted, rainSetPoint, settings, rainbirdService, subs, zones, endTime,
                   cancelLoop, timeoutId, enableQueueing, is_active,
                   active_zone, zone_time_left, rec, timer, life, deleted,
                   req, lastPositive, lastZero>>

\* ------------------------------------------------- getCurrentStatus
\* The 'status' listener of client c (lines 119-121) calls getCurrentStatus();
\* the client reports s, and rain as its rain set-point flag, which
\* getCurrentStatus does not read.
StatusNotifyWith(c, s, rain) ==
    /\ c \in subs
    /\ s \in Snapshots
    /\ GetCurrentStatusCall(FALSE, s)
    /\ rainSetPoint' = rain
    /\ UNCHANGED <<pair, formatted, now, settings, rainbirdService, subs, zones, endTime,
                   cancelLoop, timeoutId, enableQueueing, active_zone,
                   zone_time_left, timer, life, deleted, req, lastPositive, lastZero>>

\* the same while the rain set-point flag keeps its value
StatusNotify(c, s) == StatusNotifyWith(c, s, rainSetPoint)

\* getCurrentStatus() called while this.rainbirdService is undefined: the
\* reads of lines 17, 29 and 49 fall back to their defaults whatever s is.
NoClientCall(s) ==
    /\ rainbirdService = 0
    /\ BagCardinality(rec) < MaxRec
    /\ s \in Snapshots
    /\ GetCurrentStatusCall(FALSE, s)
    /\ UNCHANGED <<pair, formatted, rainSetPoint, now, settings, rainbirdService, subs, zones, endTime,
                   cancelLoop, timeoutId, enableQueueing, active_zone,
                   zone_time_left, timer, life, deleted, req, lastPositive, lastZero>>

\* resumes after await trigger.trigger (line 36): line 39
GetCurrentStatus36(r) ==
    /\ r.pc = "r36"
    /\ is_active' = Some(r.isInUse)
    /\ rec' = Moved(r, [r EXCEPT !.pc = "r39"])
    /\ emitted' = "none"
    /\ UNCHANGED <<pair, formatted, rainSetPoint, now, settings, rainbirdService, subs, zones, endTime,
                   cancelLoop, timeoutId, enableQueueing, active_zone,
                   zone_time_left, timer, life, deleted, req, lastPositive, lastZero>>

\* resumes after await setCapabilityValue('is_active') (line 39): lines 41-47
\* with a zone, lines 63-65 without
GetCurrentStatus39(r) ==
    /\ r.pc = "r39"
    /\ IF r.zone # 0
       THEN /\ active_zone' = Some(ZoneName(r.zone))
            /\ rec' = Moved(r, [NewRec("r44", r.initial) EXCEPT !.zone = r.zone])
            /\ UNCHANGED <<endTime, cancelLoop, lastPositive, lastZero>>
       ELSE /\ endTime' = None
            /\ cancelLoop' = TRUE
            /\ active_zone' = Some("None")
            /\ lastPositive' = FALSE
            /\ lastZero' = FALSE
            /\ rec' = Moved(r, NewRec("r65", r.initial))
    /\ emitted' = "none"
    /\ UNCHANGED <<pair, formatted, rainSetPoint, now, settings, rainbirdService, subs, zones, timeoutId,
                   enableQueueing, is_active, zone_time_left, timer, life,
                   deleted, req>>

\* lines 52-53 moved under the test of line 54: endTime is kept while the
\* countdown runs
GetCurrentStatus44KeepsEndTime(r, d) ==
    /\ r.pc = "r44"
    /\ d \in Durations
    /\ LET duration == RemainingDuration(d)
           endDate == Some(now + SecondMs * duration)
       IN  IF duration # 0
           THEN /\ endTime' = IF cancelLoop THEN endDate ELSE endTime
                /\ lastPositive' = TRUE
                /\ lastZero' = FALSE
                /\ IF cancelLoop
                   THEN /\ cancelLoop' = FALSE
                        /\ zone_time_left' = Some(UpdateTimeText(endDate))
                        /\ rec' = Moved(r, [r EXCEPT !.pc = "r56", !.zone = 0,
                                     !.expired = UpdateTimeExpired(endDate),
                                     !.t0 = now % SecondMs,
                                     !.epoch = rainbirdService])
                        /\ UNCHANGED <<subs, life>>
                   ELSE /\ FinishRec(r)
                        /\ UNCHANGED <<cancelLoop, zone_time_left>>
           ELSE /\ zone_time_left' = Some("-")
                /\ lastPositive' = FALSE
                /\ lastZero' = TRUE
                /\ rec' = Moved(r, [r EXCEPT !.pc = "r59", !.zone = 0])
                /\ UNCHANGED <<endTime, cancelLoop, subs, life>>
    /\ emitted' = "none"
    /\ UNCHANGED <<pair, formatted, rainSetPoint, now, settings, rainbirdService, zones, timeoutId,
                   enableQueueing, is_active, active_zone, timer, deleted,
                   req>>

\* resumes after await setCapabilityValue('active_zone') (line 44 or 46):
\* lines 49-59, and updateTime (lines 228-240) when line 56 calls it;
\* remainingDuration returns d
GetCurrentStatus44(r, d) ==
    /\ r.pc = "r44"
    /\ d \in Durations
    /\ LET duration == RemainingDuration(d)
           endDate == Some(now + SecondMs * duration)
       IN  IF duration # 0
           THEN /\ endTime' = endDate
                /\ lastPositive' = TRUE
                /\ lastZero' = FALSE
                /\ IF cancelLoop
                   THEN /\ cancelLoop' = FALSE
                        /\ zone_time_left' = Some(UpdateTimeText(endDate))
                        /\ rec' = Moved(r, [r EXCEPT !.pc = "r56", !.zone = 0,
                                     !.expired = UpdateTimeExpired(endDate),
                                     !.t0 = now % SecondMs,
                                     !.epoch = rainbirdService])
                        /\ UNCHANGED <<subs, life>>
                   ELSE /\ FinishRec(r)
                        /\ UNCHANGED <<cancelLoop, zone_time_left>>
           ELSE /\ zone_time_left' = Some("-")
                /\ lastPositive' = FALSE
                /\ lastZero' = TRUE
                /\ rec' = Moved(r, [r EXCEPT !.pc = "r59", !.zone = 0])
                /\ UNCHANGED <<endTime, cancelLoop, subs, life>>
    /\ emitted' = "none"
    /\ UNCHANGED <<pair, formatted, rainSetPoint, now, settings, rainbirdService, zones, timeoutId,
                   enableQueueing, is_active, active_zone, timer, deleted,
                   req>>

\* the updateTime of line 56 resumes after its await (line 236): line 233
\* on the expired branch, lines 242-244, and getCurrentStatus returns
GetCurrentStatus56(r) ==
    /\ r.pc = "r56"
    /\ LET stop == r.expired \/ cancelLoop
       IN  /\ cancelLoop' = stop
           /\ IF ~stop
              THEN /\ FreeHandles # {}
                   /\ timer' = [timer EXCEPT ![LowestFree] =
                                    PendingTimer(r.epoch, r.t0)]
                   /\ timeoutId' = Some(LowestFree)
              ELSE UNCHANGED <<timer, timeoutId>>
    /\ FinishRec(r)
    /\ emitted' = "none"
    /\ UNCHANGED <<pair, formatted, rainSetPoint, now, settings, rainbirdService, zones, endTime,
                   enableQueueing, is_active, active_zone, zone_time_left,
                   deleted, req, lastPositive, lastZero>>

\* line 60 left out: the countdown stays marked running
GetCurrentStatus59KeepsLoop(r) ==
    /\ r.pc = "r59"
    /\ FinishRec(r)
    /\ emitted' = "none"
    /\ UNCHANGED <<pair, formatted, rainSetPoint, now, settings, rainbirdService, zones, endTime, cancelLoop,
                   timeoutId, enableQueueing, is_active, active_zone,
                   zone_time_left, timer, deleted, req, lastPositive, lastZero>>

\* resumes after await setCapabilityValue('zone_time_left') (line 59): line 60
GetCurrentStatus59(r) ==
    /\ r.pc = "r59"
    /\ cancelLoop' = TRUE
    /\ FinishRec(r)
    /\ emitted' = "none"
    /\ UNCHANGED <<pair, formatted, rainSetPoint, now, settings, rainbirdService, zones, endTime, timeoutId,
                   enableQueueing, is_active, active_zone, zone_time_left,
                   timer, deleted, req, lastPositive, lastZero>>

\* resumes after await setCapabilityValue('active_zone', 'None') (line 65):
\* line 66
GetCurrentStatus65(r) ==
    /\ r.pc = "r65"
    /\ zone_time_left' = Some("-")
    /\ rec' = Moved(r, [r EXCEPT !.pc = "r66"])
    /\ emitted' = "none"
    /\ UNCHANGED <<pair, formatted, rainSetPoint, now, settings, rainbirdService, subs, zones, endTime,
                   cancelLoop, timeoutId, enableQueueing, is_active,
                   active_zone, timer, life, deleted, req, lastPositive, lastZero>>

\* resumes after await setCapabilityValue('zone_time_left') (line 66)
GetCurrentStatus66(r) ==
    /\ r.pc = "r66"
    /\ FinishRec(r)
    /\ emitted' = "none"
    /\ UNCHANGED <<pair, formatted, rainSetPoint, now, settings, rainbirdService, zones, endTime, cancelLoop,
                   timeoutId, enableQueueing, is_active, active_zone,
                   zone_time_left, timer, deleted, req, lastPositive, lastZero>>

\* ------------------------------------------------------- updateTime
\* The timeout of handle h fires: updateTime, lines 228-240, up to its await.
TimerFire(h) ==
    /\ timer[h].st = "pending"
    /\ now >= timer[h].at
    /\ zone_time_left' = Some(UpdateTimeText(endTime))
    /\ timer' = [timer EXCEPT ![h] =
                    [st |-> "running", at |-> 0, epoch |-> timer[h].epoch,
                     expired |-> UpdateTimeExpired(endTime),
                     t0 |-> now % SecondMs]]
    /\ emitted' = "none"
    /\ UNCHANGED <<pair, formatted, rainSetPoint, now, settings, rainbirdService, subs, zones, endTime,
                   cancelLoop, timeoutId, enableQueueing, is_active,
                   active_zone, rec, life, deleted, req, lastPositive, lastZero>>

\* updateTime resumes after its await: line 233 on the expired branch, then
\* lines 242-244.  The new timeout takes the place of the handle that fired.
UpdateTimeResume(h) ==
    /\ timer[h].st = "running"
    /\ LET stop == timer[h].expired \/ cancelLoop
       IN  /\ cancelLoop' = stop
           /\ IF ~stop
              THEN /\ timer' = [timer EXCEPT ![h] =
                                   PendingTimer(timer[h].epoch, timer[h].t0)]
                   /\ timeoutId' = Some(h)
              ELSE /\ timer' = [timer EXCEPT ![h] = FreeTimer]
                   /\ UNCHANGED timeoutId
    /\ emitted' = "none"
    /\ UNCHANGED <<pair, formatted, rainSetPoint, now, settings, rainbirdService, subs, zones, endTime,
                   enableQueueing, is_active, active_zone, zone_time_left,
                   rec, life, deleted, req, lastPositive, lastZero>>

\* ------------------------------------------- instantiateController
\* onInit (line 162) calls instantiateController: lines 71-85, which read
\* the settings, set this.zones and await the import
OnInit ==
    /\ life.handler = "none"
    /\ life' = [handler |-> "onInit", pc |-> "i85", trace |-> <<>>]
    /\ zones' = ConfiguredZones
    /\ emitted' = "none"
    /\ UNCHANGED <<pair, formatted, rainSetPoint, now, settings, rainbirdService, subs, endTime, cancelLoop,
                   timeoutId, enableQueueing, is_active, active_zone,
                   zone_time_left, rec, timer, deleted, req, lastPositive, lastZero>>

\* resumes after await import (line 85): lines 89-101, new client, init()
Instantiate85 ==
    /\ life.pc = "i85"
    /\ rainbirdService' = rainbirdService + 1
    /\ life' = [life EXCEPT !.pc = "i101",
                  !.trace = Append(life.trace,
                      [op |-> "new", client |-> rainbirdService + 1])]
    /\ emitted' = "none"
    /\ UNCHANGED <<pair, formatted, rainSetPoint, now, settings, subs, zones, endTime, cancelLoop, timeoutId,
                   enableQueueing, is_active, active_zone, zone_time_left,
                   rec, timer, deleted, req, lastPositive, lastZero>>

\* lines 103-115: the settings instantiateController rewrites
Normalised(s) ==
    [s EXCEPT !.enableQueueing = IF @ = "on" THEN "false" ELSE @,
              !.defaultIrrigationTime = IF @.isString THEN Minutes(60) ELSE @,
              !.zonesAvailable = IF @ = 0 THEN Cardinality(HubZones) ELSE @]

\* init() resolves (line 101).  Lines 103-115 await setSettings where a
\* setting needs rewriting (one await here), otherwise line 117 follows.
Instantiate101(s) ==
    /\ life.pc = "i101"
    /\ s \in Snapshots
    /\ IF Normalised(settings) # settings
       THEN /\ settings' = Normalised(settings)
            /\ life' = [life EXCEPT !.pc = "i115"]
            /\ emitted' = "none"
            /\ UNCHANGED <<is_active, rec>>
       ELSE /\ GetCurrentStatusCall(TRUE, s)
            /\ life' = [life EXCEPT !.pc = "i117", !.trace = Logged("reconcile")]
            /\ UNCHANGED settings
    /\ UNCHANGED <<pair, formatted, rainSetPoint, now, rainbirdService, subs, zones, endTime, cancelLoop,
                   timeoutId, enableQueueing, active_zone, zone_time_left,
                   timer, deleted, req, lastPositive, lastZero>>

\* init() rejects (line 101): instantiateController fails
Instantiate101Rejected ==
    /\ life.pc = "i101"
    /\ life' = [life EXCEPT !.pc = "failed", !.trace = Logged("initFailed")]
    /\ emitted' = "none"
    /\ UNCHANGED <<pair, formatted, rainSetPoint, now, settings, rainbirdService, subs, zones, endTime,
                   cancelLoop, timeoutId, enableQueueing, is_active,
                   active_zone, zone_time_left, rec, timer, deleted, req,
                   lastPositive, lastZero>>

\* resumes after await setSettings (lines 104-114): line 117
Instantiate115(s) ==
    /\ life.pc = "i115"
    /\ s \in Snapshots
    /\ GetCurrentStatusCall(TRUE, s)
    /\ life' = [life EXCEPT !.pc = "i117", !.trace = Logged("reconcile")]
    /\ UNCHANGED <<pair, formatted, rainSetPoint, now, settings, rainbirdService, subs, zones, endTime,
                   cancelLoop, timeoutId, enableQueueing, active_zone,
                   zone_time_left, timer, deleted, req, lastPositive, lastZero>>

\* ------------------------------------------------ onSettings, onDeleted
\* the calls a handler makes through this.rainbirdService?.
ServiceCall(op, arg) ==
    IF rainbirdService = 0 THEN <<>>
    ELSE <<[op |-> op, client |-> rainbirdService, arg |-> arg]>>

\* onSettings, lines 191-199, up to the await of stopIrrigation.  The host
\* has stored the new settings.
OnSettings(new) ==
    /\ life.handler # "none" /\ ~LifeBusy /\ ~deleted
    /\ rainbirdService < MaxInstances
    /\ settings' = new
    /\ timer' = ClearTimeout
    /\ life' = [handler |-> "onSettings", pc |-> "s199",
                trace |-> (IF timeoutId # None
                           THEN <<[op |-> "clearTimeout", client |-> rainbirdService]>>
                           ELSE <<>>)
                    \o <<[op |-> "deactivateAllZones", client |-> rainbirdService],
                         [op |-> "stopIrrigation", client |-> rainbirdService]>>]
    /\ emitted' = "none"
    /\ UNCHANGED <<pair, formatted, rainSetPoint, now, rainbirdService, subs, zones, endTime, cancelLoop,
                   timeoutId, enableQueueing, is_active, active_zone,
                   zone_time_left, rec, deleted, req, lastPositive, lastZero>>

\* stopIrrigation resolves (line 199): line 200 calls instantiateController,
\* lines 71-85
OnSettings199 ==
    /\ life.pc = "s199"
    /\ zones' = ConfiguredZones
    /\ life' = [life EXCEPT !.pc = "i85"]
    /\ emitted' = "none"
    /\ UNCHANGED <<pair, formatted, rainSetPoint, now, settings, rainbirdService, subs, endTime, cancelLoop,
                   timeoutId, enableQueueing, is_active, active_zone,
                   zone_time_left, rec, timer, deleted, req, lastPositive, lastZero>>

\* stopIrrigation rejects (line 199): onSettings throws
OnSettings199Rejected ==
    /\ life.pc = "s199"
    /\ life' = [life EXCEPT !.pc = "failed", !.trace = Logged("stopFailed")]
    /\ emitted' = "none"
    /\ UNCHANGED <<pair, formatted, rainSetPoint, now, settings, rainbirdService, subs, zones, endTime,
                   cancelLoop, timeoutId, enableQueueing, is_active,
                   active_zone, zone_time_left, rec, timer, deleted, req,
                   lastPositive, lastZero>>

\* onDeleted, lines 216-224, up to the await of stopIrrigation
OnDeleted ==
    /\ life.handler # "none" /\ ~LifeBusy /\ ~deleted
    /\ deleted' = TRUE
    /\ cancelLoop' = TRUE
    /\ timer' = ClearTimeout
    /\ life' = [handler |-> "onDeleted", pc |-> "d224",
                trace |-> <<[op |-> "deactivateAllZones", client |-> rainbirdService],
                            [op |-> "stopIrrigation", client |-> rainbirdService]>>]
    /\ emitted' = "none"
    /\ UNCHANGED <<pair, formatted, rainSetPoint, now, settings, rainbirdService, subs, zones, endTime,
                   timeoutId, enableQueueing, is_active, active_zone,
                   zone_time_left, rec, req, lastPositive, lastZero>>

\* stopIrrigation settles (line 224): onDeleted returns or throws
OnDeleted224 ==
    /\ life.pc = "d224"
    /\ life' = [life EXCEPT !.pc = "done"]
    /\ emitted' = "none"
    /\ UNCHANGED <<pair, formatted, rainSetPoint, now, settings, rainbirdService, subs, zones, endTime,
                   cancelLoop, timeoutId, enableQueueing, is_active,
                   active_zone, zone_time_left, rec, timer, deleted, req,
                   lastPositive, lastZero>>

\* ------------------------------------------------------- flow actions
\* The arguments a flow passes: a configured zone (0: none chosen) and a
\* number of minutes.
ZoneArgs == {0} \cup {ConfiguredZones[i].index : i \in 1..Len(ConfiguredZones)}
MinuteArgs == 0..2

ReqFree == req.pc \in {"idle", "done", "failed"}

\* lines 270-273 and 291-294 left out: no stop-all before the await
StartCallsWithoutStopAll(zone, minutes) == <<>>

\* lines 270-279 and 291-300: the calls up to the await of stopIrrigation,
\* or the activateZone call when queueing
StartCalls(zone, minutes) ==
    IF ~enableQueueing
    THEN ServiceCall("deactivateAllZones", 0) \o ServiceCall("stopIrrigation", 0)
    ELSE ServiceCall("activateZone", [zone |-> zone, seconds |-> minutes * 60])

\* a start request: the test of line 269 or 290 is ok
StartRequest(card, zone, minutes, ok) ==
    /\ ReqFree
    /\ rainbirdService # 0
    /\ req' = [card |-> card, zone |-> zone, minutes |-> minutes,
               pc |-> IF ok /\ ~enableQueueing THEN "q273" ELSE "done",
               calls |-> IF ok THEN StartCalls(zone, minutes) ELSE <<>>,
               error |-> "none"]
    /\ emitted' = "none"
    /\ UNCHANGED <<pair, formatted, rainSetPoint, now, settings, rainbirdService, subs, zones, endTime,
                   cancelLoop, timeoutId, enableQueueing, is_active,
                   active_zone, zone_time_left, rec, timer, life, deleted,
                   lastPositive, lastZero>>

\* the run listener of start_zone_X_minutes, lines 265-279
StartZoneWithTime(zone, minutes) ==
    StartRequest("start_zone_X_minutes", zone, minutes, zone # 0 /\ minutes # 0)

\* the run listener of start_zone, lines 285-300; minutes is the setting
\* defaultIrrigationTime, which the product of line 300 converts to a number
StartZone(zone) ==
    StartRequest("start_zone", zone, settings.defaultIrrigationTime.value,
                 zone # 0)

\* line 279 or 300 followed by a write of is_active
StartZone273Publishing ==
    /\ req.pc = "q273"
    /\ req' = [req EXCEPT !.pc = "done",
                 !.calls = @ \o ServiceCall("activateZone",
                     [zone |-> req.zone, seconds |-> req.minutes * 60])]
    /\ is_active' = Some(TRUE)
    /\ emitted' = "none"
    /\ UNCHANGED <<pair, formatted, rainSetPoint, now, settings, rainbirdService, subs, zones, endTime,
                   cancelLoop, timeoutId, enableQueueing, active_zone,
                   zone_time_left, rec, timer, life, deleted, lastPositive, lastZero>>

\* stopIrrigation resolves (line 273 or 294): line 279 or 300
StartZone273 ==
    /\ req.pc = "q273"
    /\ req' = [req EXCEPT !.pc = "done",
                 !.calls = @ \o ServiceCall("activateZone",
                     [zone |-> req.zone, seconds |-> req.minutes * 60])]
    /\ emitted' = "none"
    /\ UNCHANGED <<pair, formatted, rainSetPoint, now, settings, rainbirdService, subs, zones, endTime,
                   cancelLoop, timeoutId, enableQueueing, is_active,
                   active_zone, zone_time_left, rec, timer, life, deleted,
                   lastPositive, lastZero>>

\* stopIrrigation rejects (line 273 or 294): the run listener throws
StartZone273Rejected ==
    /\ req.pc = "q273"
    /\ req' = [req EXCEPT !.pc = "failed", !.error = "thrown"]
    /\ emitted' = "none"
    /\ UNCHANGED <<pair, formatted, rainSetPoint, now, settings, rainbirdService, subs, zones, endTime,
                   cancelLoop, timeoutId, enableQueueing, is_active,
                   active_zone, zone_time_left, rec, timer, life, deleted,
                   lastPositive, lastZero>>

\* a stop request: its calls; the promise of the last one rejects or not,
\* and .catch((e) => this.error(e)) logs the rejection (lines 312, 321)
StopRequest(card, zone, calls, rejects) ==
    /\ ReqFree
    /\ rainbirdService # 0
    /\ req' = [card |-> card, zone |-> zone, minutes |-> 0, pc |-> "done",
               calls |-> calls,
               error |-> IF calls # <<>> /\ rejects THEN "logged" ELSE "none"]
    /\ emitted' = "none"
    /\ UNCHANGED <<pair, formatted, rainSetPoint, now, settings, rainbirdService, subs, zones, endTime,
                   cancelLoop, timeoutId, enableQueueing, is_active,
                   active_zone, zone_time_left, rec, timer, life, deleted,
                   lastPositive, lastZero>>

\* the run listener of stop_zone, lines 306-314
StopZone(zone, rejects) ==
    StopRequest("stop_zone", zone,
                IF zone # 0 THEN ServiceCall("deactivateZone", [zone |-> zone])
                ELSE <<>>,
                rejects)

\* the run listener of stop_irrigation, lines 318-322
StopIrrigation(rejects) ==
    StopRequest("stop_irrigation", 0,
                ServiceCall("deactivateAllZones", 0)
                    \o ServiceCall("stopIrrigation", 0),
                rejects)

\* ------------------------------------------------- pairing (driver.ts)
\* What the pairing form can submit: an empty string is a missing field.
Hosts == {"", "10.0.0.5", "10.0.0.9"}
Passwords == {"", "secret"}
FormData ==
    [host : Hosts, password : Passwords,
     defaultIrrigationTime : {MinutesText(15)}, enableQueueing : {FALSE}]

\* What service.init() can resolve with.
Metadata == [model : {None, Some("ESP-ME3")}, zones : {None, Some(HubZones)}]

\* What update_zone_names can be given: per zone no name, '' or a name.
ZoneNameForms == [HubZones -> {None, Some(""), Some("Front")}]

\* a string used as a condition
Truthy(s) == s # ""

\* Number(x) of a number or a string of digits
NumberOf(m) == Minutes(m.value)

\* connect, lines 76-86: the PairResult for the metadata md
ConnectResult(md) ==
    IF md.model = None \/ md.zones = None
    THEN [success |-> FALSE, zones |-> None, model |-> None]
    ELSE [success |-> TRUE, zones |-> md.zones, model |-> md.model]

\* createZonesFromData(data), lines 89-100: the keys of data in ascending
\* order whose entry in this.zoneNames is defined and not ''
RECURSIVE ZonesOfKeys(_)
ZonesOfKeys(keys) ==
    IF keys = {} THEN <<>>
    ELSE LET key == CHOOSE k \in keys : \A j \in keys : k <= j
             name == pair.zoneNames[key]
         IN  (IF name # None /\ name # Some("")
              THEN <<[index |-> key, name |-> Get(name)]>>
              ELSE <<>>) \o ZonesOfKeys(keys \ {key})
createZonesFromData(data) == ZonesOfKeys({k \in DOMAIN data : data[k] # None})

\* a step of the driver leaves the device alone
DeviceUntouched ==
    UNCHANGED <<formatted, rainSetPoint, now, settings, rainbirdService, subs, zones,
                endTime, cancelLoop, timeoutId, enableQueueing, is_active,
                active_zone, zone_time_left, emitted, rec, timer, life,
                deleted, req, lastPositive, lastZero>>

\* form_complete(data), lines 103-107 up to the first await of connect, or
\* lines 115-117 when host or password is missing
FormComplete(data) ==
    /\ pair.pc = "idle"
    /\ IF Truthy(data.host) /\ Truthy(data.password)
       THEN pair' = [pair EXCEPT !.pairData = Some(data),
                                  !.data = Some(data),
                                  !.pc = "c63",
                                  !.reply = None,
                                  !.op = "form_complete"]
       ELSE pair' = [pair EXCEPT !.reply = Some(ConnectResult(
                                      [model |-> None, zones |-> None])),
                                  !.op = "form_complete",
                                  !.last = "missing"]
    /\ DeviceUntouched

\* connect, lines 64-74: the import resolved, the client is created and
\* init() is awaited
Connect63 ==
    /\ pair.pc = "c63"
    /\ pair' = [pair EXCEPT !.pc = "c74", !.op = "form_complete"]
    /\ DeviceUntouched

\* init() resolves with md: connect returns (lines 76-86) and form_complete
\* goes on from line 107 to its return at line 110 or the await of line 112
Connect74(md) ==
    LET result == ConnectResult(md)
    IN  /\ pair.pc = "c74"
        /\ IF ~result.success
           THEN pair' = [pair EXCEPT !.pairResult = Some(result),
                                      !.reply = Some(result),
                                      !.pc = "idle",
                                      !.data = None,
                                      !.op = "form_complete",
                                      !.last = "refused"]
           ELSE pair' = [pair EXCEPT !.pairResult = Some(result),
                                      !.pc = "f112",
                                      !.op = "form_complete",
                                      !.last = "connected",
                                      !.verified = pair.data]
        /\ DeviceUntouched

\* init() rejects (line 74): connect and form_complete throw at line 107
Connect74Rejected ==
    /\ pair.pc = "c74"
    /\ pair' = [pair EXCEPT !.pc = "idle",
                             !.data = None,
                             !.op = "form_complete",
                             !.last = "error"]
    /\ DeviceUntouched

\* form_complete, lines 112-113: the next view is shown, the result returned
FormComplete112 ==
    /\ pair.pc = "f112"
    /\ pair' = [pair EXCEPT !.reply = pair.pairResult,
                             !.pc = "idle",
                             !.data = None,
                             !.op = "form_complete"]
    /\ DeviceUntouched

\* update_zone_names(data), lines 120-122
UpdateZoneNames(data) ==
    /\ pair' = [pair EXCEPT !.zoneNames = data, !.op = "update_zone_names"]
    /\ DeviceUntouched

\* list_devices, lines 124-150, with process.env.DEBUG set or not
ListDevices(debug) ==
    LET found == /\ pair.pairData # None
                 /\ pair.pairResult # None
                 /\ Get(pair.pairResult).success
        pairData == Get(pair.pairData)
        name == Nullish(Get(pair.pairResult).model, "Unknown model")
        device ==
            [name |-> IF debug THEN name \o " debug" ELSE name,
             data |-> [id |-> "rainbird_" \o pairData.host],
             settings |->
                 [host |-> pairData.host,
                  password |-> pairData.password,
                  defaultIrrigationTime |->
                      NumberOf(pairData.defaultIrrigationTime),
                  enableQueueing |-> pairData.enableQueueing,
                  zones |-> createZonesFromData(pair.zoneNames)]]
    IN  /\ pair' = [pair EXCEPT !.devices = IF found THEN <<device>> ELSE <<>>,
                                !.op = "list_devices"]
        /\ DeviceUntouched

\* ------------------------------------------------------ specifications
Reconcile(r) ==
    \/ GetCurrentStatus36(r)
    \/ GetCurrentStatus39(r)
    \/ \E d \in Durations : GetCurrentStatus44(r, d)
    \/ GetCurrentStatus56(r)
    \/ GetCurrentStatus59(r)
    \/ GetCurrentStatus65(r)
    \/ GetCurrentStatus66(r)

Instantiate ==
    \/ Instantiate85
    \/ \E s \in Snapshots : Instantiate101(s)
    \/ Instantiate101Rejected
    \/ \E s \in Snapshots : Instantiate115(s)

\* One device session: onInit, status notifications, countdown.
Session(nRec) ==
    \/ Advance
    \/ \E c \in 1..MaxInstances, s \in Snapshots :
          StatusCount < nRec /\ StatusNotify(c, s)
    \/ \E r \in BagToSet(rec) : Reconcile(r)
    \/ \E h \in Handles : TimerFire(h) \/ UpdateTimeResume(h)
    \/ OnInit
    \/ Instantiate

Next == Session(MaxRec)
Spec == Init /\ [][Next]_vars

\* The same with one more reconcile in flight and one more timeout.
NextRace == Session(MaxRec + 1)
SpecRace == InitRace /\ [][NextRace]_vars

\* Reconciles alone, at one instant: getCurrentStatus called before a client
\* exists, by instantiateController and by the status listener.
NextNoClient ==
    \/ \E s \in Snapshots : NoClientCall(s)
    \/ OnInit
    \/ Instantiate
    \/ \E c \in 1..MaxInstances, s \in Snapshots :
          StatusCount < MaxRec /\ StatusNotify(c, s)
    \/ \E r \in BagToSet(rec) : Reconcile(r)

SpecNoClient == Init /\ [][NextNoClient]_vars

\* One session in which the rain set-point flag changes.
NextRain ==
    \/ \E c \in 1..MaxInstances, s \in Snapshots, rain \in BOOLEAN :
          StatusCount < MaxRec /\ StatusNotifyWith(c, s, rain)
    \/ \E r \in BagToSet(rec) : Reconcile(r)
    \/ OnInit
    \/ Instantiate

SpecRain == Init /\ [][NextRain]_vars

\* formatTime applied to each argument.
FormatTimeCall ==
    /\ formatted.text = None
    /\ formatted' = [formatted EXCEPT !.text = Some(formatTime(formatted.seconds))]
    /\ emitted' = "none"
    /\ UNCHANGED <<pair, rainSetPoint, now, settings, rainbirdService, subs, zones,
                   endTime, cancelLoop, timeoutId, enableQueueing, is_active,
                   active_zone, zone_time_left, rec, timer, life, deleted,
                   req, lastPositive, lastZero>>

NextFormat == FormatTimeCall
SpecFormat == InitFormat /\ [][NextFormat]_vars

\* A device whose settings change.
NextSettings ==
    \/ Session(MaxRec)
    \/ OnSettings(settings)
    \/ OnSettings199
    \/ OnSettings199Rejected

SpecSettings == Init /\ [][NextSettings]_vars

\* A device that is deleted.
NextDeleted ==
    \/ Session(MaxRec)
    \/ OnDeleted
    \/ OnDeleted224

SpecDeleted == Init /\ [][NextDeleted]_vars

\* Flow actions against a device that is initialised and reconfigured.
NextRequests ==
    \/ OnInit
    \/ Instantiate
    \/ \E r \in BagToSet(rec) :
          \/ GetCurrentStatus39(r)
          \/ \E d \in Durations : GetCurrentStatus44(r, d)
          \/ GetCurrentStatus56(r)
          \/ GetCurrentStatus59(r)
          \/ GetCurrentStatus65(r)
          \/ GetCurrentStatus66(r)
    \/ \E q \in {"false", "true"} :
          OnSettings([settings EXCEPT !.enableQueueing = q])
    \/ OnSettings199
    \/ OnSettings199Rejected
    \/ \E z \in ZoneArgs, m \in MinuteArgs : StartZoneWithTime(z, m)
    \/ \E z \in ZoneArgs : StartZone(z)
    \/ StartZone273
    \/ StartZone273Rejected
    \/ \E z \in ZoneArgs, rejects \in BOOLEAN : StopZone(z, rejects)
    \/ \E rejects \in BOOLEAN : StopIrrigation(rejects)

SpecRequests == InitAnySettings /\ [][NextRequests]_vars

\* The driver's pairing handlers, one form_complete at a time.
NextPair ==
    \/ \E data \in FormData : FormComplete(data)
    \/ Connect63
    \/ \E md \in Metadata : Connect74(md)
    \/ Connect74Rejected
    \/ FormComplete112
    \/ \E data \in ZoneNameForms : UpdateZoneNames(data)
    \/ \E debug \in BOOLEAN : ListDevices(debug)

SpecPair == Init /\ [][NextPair]_vars

\* ----------------------------------------------------------- claims
\* the step calls getCurrentStatus: r is the new invocation, after line 32
Called(r) == rec' = rec (+) SetToBag({r})
\* the step brings an invocation to r / resumes or ends the invocation r
Began(r) == CopiesIn(r, rec') = CopiesIn(r, rec) + 1
Left(r) == CopiesIn(r, rec') = CopiesIn(r, rec) - 1
Pending == {h \in Handles : timer[h].st = "pending"}

\* C1: a non-initial reconcile whose in-use value equals the published
\* is_active value emits neither turns_on nor turns_off.
C1_UnchangedEmitsNothing ==
    [][\A r \in BagToSet(rec') :
          (Called(r) /\ ~r.initial /\ Some(r.isInUse) = is_active)
              => emitted' = "none"]_vars

\* a status reconcile that read the published value has passed line 32
C1_Witness ==
    \E r \in BagToSet(rec) :
        ~r.initial /\ r.pc = "r39" /\ Some(r.isInUse) = r.prev
            /\ emitted = "none"

\* C2: no step of a reconcile called with initial = true emits a trigger,
\* whatever the client reports and whatever was published before.
C2_InitialEmitsNothing ==
    [][\A r \in BagToSet(rec) \cup BagToSet(rec') :
          (r.initial /\ (Began(r) \/ Left(r))) => emitted' = "none"]_vars

\* the very first reconcile found the hub in use and nothing published
C2_Witness ==
    \E r \in BagToSet(rec) :
        r.initial /\ r.pc = "r39" /\ r.isInUse /\ r.prev = None
            /\ emitted = "none" /\ is_active = Some(TRUE)

\* C3: a non-initial reconcile that finds the in-use value different from
\* the published one emits the one matching trigger before it updates
\* is_active, and every trigger answers to a change of is_active: the update
\* that follows a trigger changes the published value, and a status
\* reconcile changes it in no other step.
C3_OneEdgePerChange ==
    [][/\ \A r \in BagToSet(rec') :
             (Called(r) /\ ~r.initial /\ Some(r.isInUse) # is_active)
                 => /\ emitted' = EdgeCard(r.isInUse)
                    /\ is_active' = is_active
       /\ \A r \in BagToSet(rec) :
             (r.pc = "r36" /\ Left(r))
                 => /\ is_active' # is_active
                    /\ is_active' = Some(r.isInUse)
       /\ (is_active' # is_active)
             => \/ \E r \in BagToSet(rec) : r.pc = "r36" /\ Left(r)
                \/ \E r \in BagToSet(rec') : r.initial /\ Called(r)]_vars

\* C4 as stated: the countdown is running iff the latest reconcile saw an
\* active zone with a positive remaining duration.
C4_RunningIffPositive ==
    (rec = EmptyBag) => (~cancelLoop <=> lastPositive)

\* C4 as amended: while no reconcile is in progress, the countdown is marked
\* running only if the latest reconcile saw an active zone with a positive
\* remaining duration.
C4_RunningOnlyIfPositive ==
    (rec = EmptyBag) => (~cancelLoop => lastPositive)

\* the countdown runs after a reconcile that saw a positive duration
C4_Witness ==
    rec = EmptyBag /\ ~cancelLoop /\ lastPositive /\ Pending # {}

\* C5: at most one countdown tick is pending at any time.
C5_AtMostOnePendingTick == Cardinality(Pending) <= 1

StartCards == {"start_zone", "start_zone_X_minutes"}
Ops(calls) == [i \in DOMAIN calls |-> calls[i].op]
StopAllThenActivate == <<"deactivateAllZones", "stopIrrigation", "activateZone">>

\* C6: a start request never issues activateZone except as its third call,
\* after deactivateAllZones and stopIrrigation in that order, and for the
\* requested zone; a start request that has returned has issued the three.
C6_StopAllBeforeActivate ==
    (req.card \in StartCards) =>
        /\ \A i \in DOMAIN req.calls :
              req.calls[i].op = "activateZone"
                  => /\ Ops(req.calls) = StopAllThenActivate
                     /\ req.calls[i].arg.zone = req.zone
                     /\ req.calls[i].arg.seconds = req.minutes * 60
        /\ (req.pc = "done" /\ req.calls # <<>>)
              => Ops(req.calls) = StopAllThenActivate

\* a start for two minutes with queueing disabled has returned
C6_Witness ==
    /\ req.card = "start_zone_X_minutes" /\ req.pc = "done"
    /\ settings.enableQueueing = "false"
    /\ Ops(req.calls) = StopAllThenActivate
    /\ req.calls[3].arg = [zone |-> 1, seconds |-> 120]

\* C7: a start request made while the controller is instantiated from
\* settings with enableQueueing = true issues only activateZone.
C7_QueueingIssuesOnlyActivate ==
    [][(/\ ReqFree /\ req' # req /\ req'.card \in StartCards
        /\ req'.calls # <<>>
        /\ settings.enableQueueing = "true"
        /\ life.pc = "done")
           => \A i \in DOMAIN req'.calls :
                 req'.calls[i].op = "activateZone"]_vars

\* C8: once the controller has been re-instantiated, no tick of a countdown
\* that was started before writes zone_time_left.
C8_NoWriteFromOldCountdown ==
    [][\A h \in Handles :
          (timer[h].st = "pending" /\ timer'[h].st = "running")
              => timer[h].epoch = rainbirdService]_vars

\* C9: after onDeleted no tick is pending, none is scheduled and no
\* capability is written.
C9_DeletedReleasesCountdown ==
    [][deleted =>
          /\ Pending = {} /\ Pending' = {}
          /\ UNCHANGED <<is_active, active_zone, zone_time_left>>
          /\ \A r \in BagToSet(rec') : ~Called(r) /\ ~Began(r)]_vars

\* C10: an onSettings handler that has ended without a failure of init()
\* has performed the initial reconcile against the client it created.
C10_SettingsReachInitialReconcile ==
    (/\ life.handler = "onSettings" /\ ~LifeBusy
     /\ \A i \in DOMAIN life.trace : life.trace[i].op # "initFailed")
        => \E i \in DOMAIN life.trace :
              /\ life.trace[i] = [op |-> "reconcile", client |-> rainbirdService]
              /\ i > 1 /\ life.trace[i - 1] = [op |-> "new", client |-> rainbirdService]

\* C11: no request handler fails: a rejected delegate call is logged by
\* the handler and never thrown to the caller of the run listener.
C11_HandlersRecoverLocally ==
    req.pc # "failed" /\ req.error # "thrown"

\* C16: a step of a start, stop-zone or stop-all request handler leaves
\* is_active, active_zone, zone_time_left, endTime and cancelLoop unchanged,
\* and a step that changes a capability is a step of a reconcile.
C16_RequestsPublishNothing ==
    [][/\ (req' # req)
          => UNCHANGED <<is_active, active_zone, zone_time_left, endTime,
                         cancelLoop>>
       /\ (<<is_active, active_zone, zone_time_left>>'
              # <<is_active, active_zone, zone_time_left>>)
          => rec' # rec]_vars

\* a start request has issued activateZone while the hub was published idle
C16_Witness ==
    /\ req.card \in StartCards /\ req.pc = "done"
    /\ Ops(req.calls) = StopAllThenActivate
    /\ is_active = Some(FALSE) /\ active_zone = Some("None")
    /\ rec = EmptyBag

\* C12: a reconcile called while the client is missing reads in-use as
\* false and no active zone; a reconcile without an active zone clears
\* endTime, marks the countdown not running, publishes active_zone "None",
\* then zone_time_left "-", and returns.
C12_MissingDataTakesInactiveBranch ==
    [][/\ \A r \in BagToSet(rec') :
             (Called(r) /\ rainbirdService = 0)
                 => /\ ~r.isInUse /\ r.zone = 0
                    /\ r.pc = "r39" => is_active' = Some(FALSE)
       /\ \A r \in BagToSet(rec) :
             (r.pc = "r39" /\ r.zone = 0 /\ Left(r))
                 => /\ endTime' = None /\ cancelLoop'
                    /\ active_zone' = Some("None")
                    /\ \E r2 \in BagToSet(rec') : r2.pc = "r65" /\ Began(r2)
       /\ \A r \in BagToSet(rec) :
             (r.pc = "r65" /\ Left(r))
                 => /\ zone_time_left' = Some("-")
                    /\ \E r2 \in BagToSet(rec') : r2.pc = "r66" /\ Began(r2)
       /\ \A r \in BagToSet(rec) :
             (r.pc = "r66" /\ Left(r))
                 => BagCardinality(rec') = BagCardinality(rec) - 1]_vars

\* a reconcile without a client has published the inactive state
C12_Witness ==
    /\ rainbirdService = 0
    /\ \E r \in BagToSet(rec) : r.pc = "r66"
    /\ is_active = Some(FALSE) /\ active_zone = Some("None")
    /\ zone_time_left = Some("-") /\ endTime = None /\ cancelLoop

\* the cards the latest step emitted
Emitted == IF emitted = "none" THEN {} ELSE {emitted}

\* C13: a status reconcile that finds the rain set-point flag changed emits
\* rain_set_point_changed, and it emits rain_set_point_reached exactly when
\* the flag went from false to true.
C13_RainSetPointEdges ==
    [][\A r \in BagToSet(rec') :
          (Called(r) /\ ~r.initial)
              => /\ (rainSetPoint' # rainSetPoint)
                        => "rain_set_point_changed" \in Emitted'
                 /\ ("rain_set_point_reached" \in Emitted')
                        <=> (rainSetPoint' /\ ~rainSetPoint)]_vars

\* C14: a reconcile that observed an active zone publishes as active_zone
\* the name of a known zone with that index, or "Unknown" when no known zone
\* has that index.
C14_ActiveZoneName ==
    [][\A r \in BagToSet(rec) :
          (r.pc = "r39" /\ r.zone # 0 /\ Left(r))
              => LET known == {i \in 1..Len(zones) : zones[i].index = r.zone}
                 IN  IF known = {}
                     THEN active_zone' = Some("Unknown")
                     ELSE \E i \in known : active_zone' = Some(zones[i].name)]_vars

\* zone 2, which is not configured, was observed active
C14_Witness ==
    /\ \E r \in BagToSet(rec) : r.pc = "r44" /\ r.zone = 2
    /\ \A i \in 1..Len(zones) : zones[i].index # 2
    /\ zones # <<>>
    /\ active_zone = Some("Unknown")

\* C15: formatTime(undefined) is "-"; for a whole number of seconds s below
\* a day the result is HH:MM:SS, zero-padded, with HH = s div 3600,
\* MM = (s mod 3600) div 60 and SS = s mod 60; 3661 gives "01:01:01" and 0
\* gives "00:00:00".
C15_FormatTime ==
    (formatted.text # None) =>
        LET text == Get(formatted.text)
        IN  /\ (formatted.seconds = None) => text = "-"
            /\ (formatted.seconds # None /\ Get(formatted.seconds) < DaySeconds)
                  => LET sec == Get(formatted.seconds)
                         hh == sec \div 3600
                         mm == (sec % 3600) \div 60
                         ss == sec % 60
                     IN  text = Pad2(hh) \o ":" \o Pad2(mm) \o ":" \o Pad2(ss)
            /\ (formatted.seconds = Some(3661)) => text = "01:01:01"
            /\ (formatted.seconds = Some(0)) => text = "00:00:00"

\* formatTime(3661) has returned
C15_Witness ==
    formatted = [seconds |-> Some(3661), text |-> Some("01:01:01")]

\* C17: from the reconcile that observed an active zone with a remaining
\* duration absent or 0, and until a later reconcile observes otherwise,
\* zone_time_left stays "-", and the countdown is marked stopped when that
\* reconcile returns.
C17_ZeroDurationStaysDash ==
    [][/\ (lastZero /\ lastZero') => zone_time_left' = Some("-")
       /\ \A r \in BagToSet(rec) :
             (r.pc = "r59" /\ Left(r)) => cancelLoop']_vars

\* C18: a countdown tick is scheduled only while the countdown is marked
\* running.
C18_ScheduledOnlyWhileRunning == cancelLoop => Pending = {}

\* a step of a tick callback: the timeout h fires, or updateTime resumes
TickStep(h) ==
    \/ timer[h].st = "pending" /\ timer'[h].st = "running"
    \/ timer[h].st = "running" /\ timer'[h].st # "running"
Ticking == {h \in Handles : timer[h].st = "running"}

\* C19: a reconcile begins only while no reconcile is in progress and no
\* tick callback is suspended, and a tick callback runs only while no
\* reconcile is in progress.
C19_Serialized ==
    [][/\ \A r \in BagToSet(rec') :
             Called(r) => (rec = EmptyBag /\ Ticking = {})
       /\ \A h \in Handles : TickStep(h) => rec = EmptyBag
       /\ (rec' # rec) => Ticking = {}]_vars

\* C20: a tick that runs at or past endTime publishes "-", and when its
\* callback resumes it marks the countdown not running and schedules nothing.
C20_TickAtEndTimeStops ==
    [][\A h \in Handles :
          /\ (/\ timer[h].st = "pending" /\ timer'[h].st = "running"
              /\ endTime # None /\ now >= Get(endTime))
                => (zone_time_left' = Some("-") /\ timer'[h].expired)
          /\ (/\ timer[h].st = "running" /\ timer'[h].st # "running"
              /\ timer[h].expired)
                => (cancelLoop' /\ timer'[h].st = "free")]_vars

\* C21: a reconcile that observes an active zone with a positive remaining
\* duration d sets endTime to the current time plus d seconds, whether or
\* not the countdown is running; a reconcile that observes no active zone
\* clears endTime; no other step, a tick in particular, changes endTime.
C21_EndTimeRecomputed ==
    [][/\ \A r \in BagToSet(rec) :
             (r.pc = "r44" /\ Left(r) /\ lastPositive')
                 => \E d \in 1..MaxDur : endTime' = Some(now + SecondMs * d)
       /\ \A r \in BagToSet(rec) :
             (r.pc = "r39" /\ r.zone = 0 /\ Left(r)) => endTime' = None
       /\ \A h \in Handles : TickStep(h) => endTime' = endTime
       /\ (endTime' # endTime)
             => \E r \in BagToSet(rec) : r.pc \in {"r39", "r44"} /\ Left(r)]_vars

\* a reconcile has moved endTime while the countdown was already running
C21_Witness ==
    /\ ~cancelLoop /\ lastPositive /\ rec = EmptyBag
    /\ now > 0 /\ endTime = Some(now + SecondMs)
    /\ \E h \in Handles : timer[h].st = "pending" /\ timer[h].at = now

\* C22: every activateZone call of a start request carries a positive
\* number of seconds, 60 times the minutes of the request (the minutes
\* supplied, or the default irrigation time), and a start request whose
\* duration is not positive issues no activateZone call.
C22_ActivateDurationPositive ==
    (req.card \in StartCards) =>
        \A i \in DOMAIN req.calls :
            req.calls[i].op = "activateZone"
                => /\ req.calls[i].arg.seconds = req.minutes * 60
                   /\ req.calls[i].arg.seconds > 0

\* C23: while the countdown is marked running, a tick is scheduled or an
\* updateTime invocation is executing.
C23_RunningCountdownHasTick ==
    ~cancelLoop =>
        \/ Pending # {}
        \/ Ticking # {}
        \/ \E r \in BagToSet(rec) : r.pc = "r56"


\* C24: once instantiateController has finished, exactly one protocol client
\* has a 'status' listener that calls getCurrentStatus, and it is the current
\* client: a client replaced by a settings change no longer drives reconcile.
C24_OneSubscription ==
    (life.pc = "done") => subs = {rainbirdService}


\* C25: whenever no getCurrentStatus is in progress, a published
\* active_zone of "None" comes with zone_time_left = "-" and a countdown
\* that is not running (cancelLoop set).
C25_NoneImpliesDashAndStopped ==
    (rec = EmptyBag /\ active_zone = Some("None"))
        => (zone_time_left = Some("-") /\ cancelLoop)


\* C26: a list_devices called while no form_complete is in progress returns
\* a device only if the latest form_complete to finish connected
\* successfully, and then with the host and password that connection was
\* given; after a form_complete with a missing host or password, with
\* success = false or with an error it returns the empty list.
C26_ListedOnlyAfterVerifiedConnect ==
    [][(pair'.op = "list_devices" /\ pair' # pair /\ pair.pc = "idle")
        => /\ (pair'.devices # <<>>)
                => /\ pair.last = "connected"
                   /\ pair.verified # None
                   /\ pair'.devices[1].settings.host = Get(pair.verified).host
                   /\ pair'.devices[1].settings.password
                          = Get(pair.verified).password
           /\ (pair.last \in {"missing", "refused", "error"})
                => pair'.devices = <<>>]_vars

====
